---- MODULE Spec2Model ----
(***************************************************************************)
(* Model of kr-examples/working_rag_metric.py: class WorkingRAGMetric.     *)
(*                                                                         *)
(* A text (Python str) is a sequence of one-character strings.  A score    *)
(* (Python float) is an exact fraction [n, d] in lowest terms; every score *)
(* the metric produces is 0.0, 1.0, 0.7, 0.8 or 2*M/T for small integers,  *)
(* and float comparison of such values agrees with exact comparison.       *)
(***************************************************************************)
EXTENDS Integers, Sequences, FiniteSets, TLC

VARIABLES output_field, gold, pred, trace, pc, result, printed,
          data, extracted, via, text, ntext, nprev, napplied

vars == <<output_field, gold, pred, trace, pc, result, printed,
          data, extracted, via, text, ntext, nprev, napplied>>

callVars == <<gold, pred, trace, pc, result, printed>>
extractVars == <<data, extracted, via>>
normVars == <<text, ntext, nprev, napplied>>

----------------------------------------------------------------------------
(* Bounds of the model.                                                    *)

\* longest enumerated text handed to _normalize_text on its own
MaxNormLen == 5
\* longest enumerated text handed to __call__ (scenario texts come on top)
MaxTextLen == 2
\* most entries of an enumerated mapping handed to _extract_text
MaxKeys == 2
\* how often _normalize_text is applied in a row to one text
MaxApply == 2

----------------------------------------------------------------------------
(* Characters and classes of characters.                                   *)

UpperChars == <<"A","B","C","D","E","F","G","H","I","J","K","L","M",
                "N","O","P","Q","R","S","T","U","V","W","X","Y","Z">>
LowerChars == <<"a","b","c","d","e","f","g","h","i","j","k","l","m",
                "n","o","p","q","r","s","t","u","v","w","x","y","z">>
DigitChars == <<"0","1","2","3","4","5","6","7","8","9">>

Range(f) == {f[i] : i \in DOMAIN f}

\* str.isspace() / regex \s, on the characters TLA+ can write
IsSpace(c) == c \in {" ", "\t", "\n", "\r", "\f"}

\* regex \w
IsWord(c) == c \in Range(UpperChars) \cup Range(LowerChars) \cup Range(DigitChars) \cup {"_"}

\* the character class [.,!?;:"\'] of _normalize_text
Punctuation == {".", ",", "!", "?", ";", ":", "\"", "'"}

\* the alternation (the|a|an) of _normalize_text, in its order
Articles == << <<"t","h","e">>, <<"a">>, <<"a","n">> >>

\* stop_words of _check_key_info
StopWords == { <<"i","s">>, <<"w","a","s">>, <<"t","h","e">>, <<"a">>, <<"a","n">>,
               <<"a","n","d">>, <<"o","r">>, <<"b","u","t">>, <<"i","n">>, <<"o","n">>,
               <<"a","t">>, <<"t","o">>, <<"f","o","r">>, <<"o","f">>,
               <<"w","i","t","h">>, <<"b","y">>, <<"f","r","o","m">> }

SetMin(S) == CHOOSE x \in S : \A y \in S : x <= y
SetMax(S) == CHOOSE x \in S : \A y \in S : x >= y

----------------------------------------------------------------------------
(* str methods.                                                            *)

LowerChar(c) ==
    IF \E i \in 1..26 : UpperChars[i] = c
    THEN LowerChars[CHOOSE i \in 1..26 : UpperChars[i] = c]
    ELSE c

\* str.lower()
Lower(s) == [i \in 1..Len(s) |-> LowerChar(s[i])]

\* str.strip()
Strip(s) ==
    LET keep == {i \in 1..Len(s) : ~IsSpace(s[i])}
    IN  IF keep = {} THEN <<>> ELSE SubSeq(s, SetMin(keep), SetMax(keep))

\* a in b, for str
Contains(b, a) ==
    \E i \in 0..(Len(b) - Len(a)) : SubSeq(b, i + 1, i + Len(a)) = a

\* set(str.split()): the maximal runs of non-whitespace characters
Words(s) ==
    { SubSeq(s, i, j) :
        <<i, j>> \in { p \in (1..Len(s)) \X (1..Len(s)) :
                        /\ p[1] <= p[2]
                        /\ \A k \in p[1]..p[2] : ~IsSpace(s[k])
                        /\ (p[1] = 1 \/ IsSpace(s[p[1] - 1]))
                        /\ (p[2] = Len(s) \/ IsSpace(s[p[2] + 1])) } }

----------------------------------------------------------------------------
(* _normalize_text                                                         *)

\* re.sub(r'\s+', ' ', s): every maximal whitespace run becomes one space
RECURSIVE CollapseFrom(_, _)
CollapseFrom(s, i) ==
    IF i > Len(s) THEN <<>>
    ELSE IF IsSpace(s[i])
         THEN IF i > 1 /\ IsSpace(s[i - 1])
              THEN CollapseFrom(s, i + 1)
              ELSE <<" ">> \o CollapseFrom(s, i + 1)
         ELSE <<s[i]>> \o CollapseFrom(s, i + 1)

CollapseWhitespace(s) == CollapseFrom(s, 1)

\* re.sub(r'[.,!?;:"\']', '', s)
RemovePunctuation(s) == SelectSeq(s, LAMBDA c : c \notin Punctuation)

\* \b at the gap before position i of s (positions 1..Len(s)+1)
WordBoundary(s, i) ==
    LET before == i > 1 /\ IsWord(s[i - 1])
        after  == i <= Len(s) /\ IsWord(s[i])
    IN  before # after

\* ArticleMatches without re.IGNORECASE
ArticleMatches_case_sensitive(s, i, alt) ==
    /\ i + Len(alt) - 1 <= Len(s)
    /\ SubSeq(s, i, i + Len(alt) - 1) = alt
    /\ WordBoundary(s, i)
    /\ WordBoundary(s, i + Len(alt))

\* does alternative alt of the pattern \b(the|a|an)\b match s at i, ignoring case
ArticleMatches(s, i, alt) ==
    /\ i + Len(alt) - 1 <= Len(s)
    /\ Lower(SubSeq(s, i, i + Len(alt) - 1)) = alt
    /\ WordBoundary(s, i)
    /\ WordBoundary(s, i + Len(alt))

\* length of the match of \b(the|a|an)\b at i: the first alternative that
\* matches, 0 when none does
ArticleLenAt(s, i) ==
    LET hits == {k \in 1..Len(Articles) : ArticleMatches(s, i, Articles[k])}
    IN  IF hits = {} THEN 0 ELSE Len(Articles[SetMin(hits)])

\* re.sub(r'\b(the|a|an)\b', '', s, flags=re.IGNORECASE): leftmost
\* non-overlapping matches are cut out, nothing is put in their place
RECURSIVE ArticlesFrom(_, _)
ArticlesFrom(s, i) ==
    IF i > Len(s) THEN <<>>
    ELSE LET k == ArticleLenAt(s, i)
         IN  IF k > 0 THEN ArticlesFrom(s, i + k)
             ELSE <<s[i]>> \o ArticlesFrom(s, i + 1)

RemoveArticles(s) == ArticlesFrom(s, 1)

_normalize_text(t) ==
    Strip(RemoveArticles(RemovePunctuation(CollapseWhitespace(Strip(t)))))

----------------------------------------------------------------------------
(* Scores: Python floats as exact fractions in lowest terms.               *)

RECURSIVE GCD(_, _)
GCD(a, b) == IF b = 0 THEN a ELSE GCD(b, a % b)

Frac(n, d) == LET g == GCD(n, d) IN [n |-> n \div g, d |-> d \div g]

Zero == Frac(0, 1)
One == Frac(1, 1)
\* the literal 0.7 of the substring bonus
SubstringBonus == Frac(7, 10)
\* the literal 0.8 of the key-information bonus
KeyInfoBonus == Frac(8, 10)

Less(x, y) == x.n * y.d < y.n * x.d
Leq(x, y) == x.n * y.d <= y.n * x.d

\* max(x, y) of Python: the first argument unless the second is greater
PyMax(x, y) == IF Less(x, y) THEN y ELSE x

----------------------------------------------------------------------------
(* difflib.SequenceMatcher(None, a, b).ratio(), for b shorter than the 200 *)
(* characters at which the automatic junk heuristic starts.  Positions are *)
(* 1-based and the ranges alo..ahi, blo..bhi are inclusive.                *)

\* length of the common run of a from i and b from j inside the ranges
RECURSIVE CommonLen(_, _, _, _, _, _)
CommonLen(a, b, i, j, ahi, bhi) ==
    IF i <= ahi /\ j <= bhi /\ a[i] = b[j]
    THEN 1 + CommonLen(a, b, i + 1, j + 1, ahi, bhi)
    ELSE 0

\* the candidate blocks of the ranges: for each pair of start positions the
\* common run from there
CandidateBlocks(a, b, alo, ahi, blo, bhi) ==
    {[i |-> p[1], j |-> p[2], size |-> CommonLen(a, b, p[1], p[2], ahi, bhi)] :
        p \in (alo..ahi) \X (blo..bhi)}

\* block m is preferred to block o: longer, or as long and starting earlier
\* in a, or as long, starting at the same place in a and earlier in b
Preferred(m, o) ==
    \/ m.size > o.size
    \/ m.size = o.size /\ m.i < o.i
    \/ m.size = o.size /\ m.i = o.i /\ m.j <= o.j

\* find_longest_match: the longest matching block; of those the one starting
\* earliest in a; of those the one starting earliest in b.  (A value bound by
\* \in is evaluated once; blocks is.)
find_longest_match(a, b, alo, ahi, blo, bhi) ==
    CHOOSE m \in
        {IF \A c \in blocks : c.size = 0
         THEN [i |-> alo, j |-> blo, size |-> 0]
         ELSE CHOOSE c \in blocks : \A o \in blocks : Preferred(c, o) :
            blocks \in {CandidateBlocks(a, b, alo, ahi, blo, bhi)}} : TRUE

\* get_matching_blocks, summed: the block, then the pieces left and right of it
RECURSIVE MatchingChars(_, _, _, _, _, _)
MatchingChars(a, b, alo, ahi, blo, bhi) ==
    IF alo > ahi \/ blo > bhi THEN 0
    ELSE CHOOSE n \in
            {IF m.size = 0 THEN 0
             ELSE m.size
                  + MatchingChars(a, b, alo, m.i - 1, blo, m.j - 1)
                  + MatchingChars(a, b, m.i + m.size, ahi, m.j + m.size, bhi) :
                m \in {find_longest_match(a, b, alo, ahi, blo, bhi)}} : TRUE

\* ratio(): 2.0 * matches / length, and 1.0 when both texts are empty
ratio(a, b) ==
    IF Len(a) + Len(b) = 0 THEN One
    ELSE Frac(2 * MatchingChars(a, b, 1, Len(a), 1, Len(b)), Len(a) + Len(b))

----------------------------------------------------------------------------
(* _check_key_info                                                         *)

\* _check_key_info without the removal of the stop words
_check_key_info_keeps_stop_words(g, p) ==
    LET gold_words == Words(Lower(g))
        pred_words == Words(Lower(p))
        overlap == Cardinality(gold_words \cap pred_words)
    IN  IF gold_words = {} THEN FALSE
        ELSE 2 * overlap >= Cardinality(gold_words)

_check_key_info(g, p) ==
    LET gold_words == Words(Lower(g)) \ StopWords
        pred_words == Words(Lower(p)) \ StopWords
        overlap == Cardinality(gold_words \cap pred_words)
    IN  IF gold_words = {} THEN FALSE
        ELSE 2 * overlap >= Cardinality(gold_words)

----------------------------------------------------------------------------
(* Python values handed to the metric.  A str is [kind, s]; an int is      *)
(* [kind, n]; None is [kind]; a list is [kind, items]; a dict is           *)
(* [kind, items] with items the <<key, value>> pairs in insertion order,   *)
(* keys being texts and distinct; any other object is [kind, str, raises]: *)
(* the text its string conversion yields, or the class of exception the    *)
(* conversion raises ("Exception": an instance of Exception;               *)
(* "BaseException": one that is not, such as KeyboardInterrupt).           *)

StrV(s) == [kind |-> "str", s |-> s]
IntV(n) == [kind |-> "int", n |-> n]
NoneV == [kind |-> "none"]
ListV(items) == [kind |-> "list", items |-> items]
DictV(items) == [kind |-> "dict", items |-> items]
ObjV(s, raises) == [kind |-> "obj", str |-> s, raises |-> raises]

\* outcome of an evaluation: the text it yields, or the exception it raises
Ok(s) == [exc |-> "none", s |-> s]
Raise(e) == [exc |-> e, s |-> <<>>]

\* field in data
HasKey(d, key) == \E i \in 1..Len(d.items) : d.items[i][1] = key
\* data[field]
Get(d, key) == d.items[CHOOSE i \in 1..Len(d.items) : d.items[i][1] = key][2]

KeyAnswer == <<"a","n","s","w","e","r">>
KeyResponse == <<"r","e","s","p","o","n","s","e">>
KeyText == <<"t","e","x","t">>
KeyOutputs == <<"o","u","t","p","u","t","s">>
KeyResult == <<"r","e","s","u","l","t">>

\* str(n) for an int n >= 0
RECURSIVE Digits(_)
Digits(n) == IF n < 10 THEN <<DigitChars[n + 1]>>
             ELSE Digits(n \div 10) \o <<DigitChars[(n % 10) + 1]>>

\* repr of one character of a str inside the quotes q
ReprChar(c, q) ==
    CASE c = "\\" -> <<"\\", "\\">>
      [] c = "\t" -> <<"\\", "t">>
      [] c = "\n" -> <<"\\", "n">>
      [] c = "\r" -> <<"\\", "r">>
      [] c = "\f" -> <<"\\", "x", "0", "c">>
      [] c = q    -> <<"\\", q>>
      [] OTHER    -> <<c>>

RECURSIVE ReprChars(_, _, _)
ReprChars(s, i, q) ==
    IF i > Len(s) THEN <<>> ELSE ReprChar(s[i], q) \o ReprChars(s, i + 1, q)

\* repr(s) for a str: single quotes, unless s has a ' and no "
ReprStr(s) ==
    LET q == IF "'" \in Range(s) /\ "\"" \notin Range(s) THEN "\"" ELSE "'"
    IN  <<q>> \o ReprChars(s, 1, q) \o <<q>>

RECURSIVE Repr(_)
RECURSIVE ReprItems(_, _)
RECURSIVE ReprEntries(_, _)

\* the items of a list from the i-th on, joined by ", "
ReprItems(items, i) ==
    IF i > Len(items) THEN Ok(<<>>)
    ELSE LET h == Repr(items[i])
         IN  IF h.exc # "none" THEN h
             ELSE LET t == ReprItems(items, i + 1)
                  IN  IF t.exc # "none" THEN t
                      ELSE Ok((IF i > 1 THEN <<",", " ">> ELSE <<>>) \o h.s \o t.s)

\* the entries of a dict from the i-th on, as key: value joined by ", "
ReprEntries(items, i) ==
    IF i > Len(items) THEN Ok(<<>>)
    ELSE LET h == Repr(items[i][2])
         IN  IF h.exc # "none" THEN h
             ELSE LET t == ReprEntries(items, i + 1)
                  IN  IF t.exc # "none" THEN t
                      ELSE Ok((IF i > 1 THEN <<",", " ">> ELSE <<>>)
                              \o ReprStr(items[i][1]) \o <<":", " ">> \o h.s \o t.s)

\* repr(v)
Repr(v) ==
    CASE v.kind = "str"  -> Ok(ReprStr(v.s))
      [] v.kind = "int"  -> Ok(Digits(v.n))
      [] v.kind = "none" -> Ok(<<"N", "o", "n", "e">>)
      [] v.kind = "list" ->
            LET r == ReprItems(v.items, 1)
            IN  IF r.exc # "none" THEN r ELSE Ok(<<"[">> \o r.s \o <<"]">>)
      [] v.kind = "dict" ->
            LET r == ReprEntries(v.items, 1)
            IN  IF r.exc # "none" THEN r ELSE Ok(<<"{">> \o r.s \o <<"}">>)
      [] v.kind = "obj"  ->
            IF v.raises = "none" THEN Ok(v.str) ELSE Raise(v.raises)

\* str(v): a str is itself, everything else converts as repr does
Str(v) == IF v.kind = "str" THEN Ok(v.s) ELSE Repr(v)

\* str(v).strip()
StrStripped(v) == LET r == Str(v) IN IF r.exc # "none" THEN r ELSE Ok(Strip(r.s))

----------------------------------------------------------------------------
(* _extract_text                                                           *)

\* the list [self.output_field, "answer", "response", "text"]
ExtractFields == <<output_field, KeyAnswer, KeyResponse, KeyText>>

\* the positions of ExtractFields at which the loop body returns: the field
\* is in data and its value is a str, a dict or a list
ReturningFields(d) ==
    {k \in 1..Len(ExtractFields) :
        /\ HasKey(d, ExtractFields[k])
        /\ Get(d, ExtractFields[k]).kind \in {"str", "dict", "list"}}

\* the return statement _extract_text reaches for d: its line, and for the
\* returns inside the loop the position in ExtractFields of the field
ExtractReturn(d) ==
    IF d.kind = "str" THEN [line |-> 69, field |-> 0]
    ELSE IF d.kind = "dict" /\ ReturningFields(d) # {}
    THEN LET k == SetMin(ReturningFields(d))
         IN  [line |-> IF Get(d, ExtractFields[k]).kind = "str" THEN 77 ELSE 79,
              field |-> k]
    ELSE IF /\ d.kind = "dict"
            /\ HasKey(d, KeyOutputs)
            /\ Get(d, KeyOutputs).kind = "dict"
            /\ HasKey(Get(d, KeyOutputs), KeyAnswer)
    THEN [line |-> 84, field |-> 0]
    ELSE [line |-> 87, field |-> 0]

_extract_text(d) ==
    LET r == ExtractReturn(d)
    IN  CASE r.line = 69 -> Ok(Strip(d.s))
          [] r.line = 77 -> Ok(Strip(Get(d, ExtractFields[r.field]).s))
          [] r.line = 79 -> Str(Get(d, ExtractFields[r.field]))
          [] r.line = 84 -> StrStripped(Get(Get(d, KeyOutputs), KeyAnswer))
          [] r.line = 87 -> StrStripped(d)

----------------------------------------------------------------------------
(* __call__                                                                *)

\* line 38
exact_match(gold_clean, pred_clean) ==
    IF Lower(gold_clean) = Lower(pred_clean) THEN One ELSE Zero

\* line 39
RawSimilarity(gold_clean, pred_clean) ==
    CHOOSE r \in {ratio(a, b) : a \in {Lower(gold_clean)}, b \in {Lower(pred_clean)}} : TRUE

\* the bonus for partial matches testing one direction only
WithSubstringBonus_one_direction(similarity, gold_clean, pred_clean) ==
    IF Contains(Lower(pred_clean), Lower(gold_clean))
    THEN PyMax(similarity, SubstringBonus)
    ELSE similarity

\* lines 42-43: the bonus for partial matches
WithSubstringBonus(similarity, gold_clean, pred_clean) ==
    IF \/ Contains(Lower(pred_clean), Lower(gold_clean))
       \/ Contains(Lower(gold_clean), Lower(pred_clean))
    THEN PyMax(similarity, SubstringBonus)
    ELSE similarity

\* lines 47-48: the bonus for key information
WithKeyInfoBonus(similarity, contains_key_info) ==
    IF contains_key_info THEN PyMax(similarity, KeyInfoBonus) ELSE similarity

\* the total as the sum of the two signals where it should be the greater
total_score_sum(exact, similarity) ==
    Frac(exact.n * similarity.d + similarity.n * exact.d, exact.d * similarity.d)

\* line 50
total_score(exact, similarity) == PyMax(exact, similarity)

\* float(b) for a bool b
Float(b) == IF b THEN One ELSE Zero

\* lines 52-60: the detailed result of the normal path
DetailedResult(exact, similarity, contains_key_info) ==
    [exact_match |-> exact, similarity |-> similarity,
     contains_key_info |-> Float(contains_key_info),
     total |-> total_score(exact, similarity)]

\* lines 38-58: the scores of two normalized texts
ScoresOfClean(gold_clean, pred_clean) ==
    CHOOSE sc \in
        {DetailedResult(exact, WithKeyInfoBonus(similarity, contains_key_info),
                        contains_key_info) :
            exact \in {exact_match(gold_clean, pred_clean)},
            similarity \in {WithSubstringBonus(RawSimilarity(gold_clean, pred_clean),
                                               gold_clean, pred_clean)},
            contains_key_info \in {_check_key_info(gold_clean, pred_clean)}} : TRUE

\* lines 34-58: the scores of two extracted, non-empty texts
Scores(gold_text, pred_text) ==
    CHOOSE sc \in
        {ScoresOfClean(gold_clean, pred_clean) :
            gold_clean \in {_normalize_text(gold_text)},
            pred_clean \in {_normalize_text(pred_text)}} : TRUE

\* the emptiness test with "and" for "or"
IsEmptyInput_both(gold_text, pred_text) == gold_text = <<>> /\ pred_text = <<>>

\* the emptiness test made on the normalized texts
IsEmptyInput_after_normalize(gold_text, pred_text) ==
    _normalize_text(gold_text) = <<>> \/ _normalize_text(pred_text) = <<>>

\* line 30: not gold_text or not pred_text
IsEmptyInput(gold_text, pred_text) == gold_text = <<>> \/ pred_text = <<>>

\* line 31
EmptyResult(tr) ==
    IF tr THEN [exact_match |-> Zero, similarity |-> Zero, total |-> Zero] ELSE Zero

\* lines 62-64: except Exception catches e exactly when e is an Exception
Catches(e) == e = "Exception"

\* line 64
ErrorResult(tr) == IF tr THEN [error |-> One, total |-> Zero] ELSE Zero

\* the body of the try block: [exc, value], value the returned object when
\* exc = "none"
TryBody(g, p, tr) ==
    LET gold_text == _extract_text(g)
    IN  IF gold_text.exc # "none" THEN [exc |-> gold_text.exc, value |-> Zero]
        ELSE LET pred_text == _extract_text(p)
             IN  IF pred_text.exc # "none" THEN [exc |-> pred_text.exc, value |-> Zero]
                 ELSE IF IsEmptyInput(gold_text.s, pred_text.s)
                      THEN [exc |-> "none", value |-> EmptyResult(tr)]
                      ELSE LET sc == Scores(gold_text.s, pred_text.s)
                           IN  [exc |-> "none",
                                value |-> IF tr THEN sc ELSE sc.total]

\* the whole call: how it ends ("returned" or "raised"), what it returns and
\* whether the handler printed the fault
__call__(g, p, tr) ==
    LET body == TryBody(g, p, tr)
    IN  IF body.exc = "none"
        THEN [pc |-> "returned", value |-> body.value, printed |-> FALSE]
        ELSE IF Catches(body.exc)
        THEN [pc |-> "returned", value |-> ErrorResult(tr), printed |-> TRUE]
        ELSE [pc |-> "raised", value |-> Zero, printed |-> FALSE]

----------------------------------------------------------------------------
(* Inputs.                                                                 *)

\* all texts over alphabet of length at most n
RECURSIVE TextsUpTo(_, _)
TextsUpTo(alphabet, n) ==
    IF n = 0 THEN {<<>>}
    ELSE LET shorter == TextsUpTo(alphabet, n - 1)
         IN  shorter \cup {Append(t, c) : t \in shorter, c \in alphabet}

\* values of the output_field option: the default and another one
OutputFields == {KeyAnswer, KeyResult}

NormAlphabet == {"a", "A", "b", " ", "\t", "."}
NormTexts == TextsUpTo(NormAlphabet, MaxNormLen)

CallAlphabet == {"a", "b", " "}
ScenarioTexts == {
    \* Paris
    <<"P","a","r","i","s">>,
    \* The Eiffel Tower is in Paris
    <<"T","h","e"," ","E","i","f","f","e","l"," ","T","o","w","e","r"," ","i","s"," ","i","n"," ","P","a","r","i","s">>,
    \* Eiffel Tower is in Paris
    <<"E","i","f","f","e","l"," ","T","o","w","e","r"," ","i","s"," ","i","n"," ","P","a","r","i","s">>,
    \* 42
    <<"4","2">>,
    \* cats and dogs are pets
    <<"c","a","t","s"," ","a","n","d"," ","d","o","g","s"," ","a","r","e"," ","p","e","t","s">>,
    \* dogs cats pets
    <<"d","o","g","s"," ","c","a","t","s"," ","p","e","t","s">>,
    \* hello world
    <<"h","e","l","l","o"," ","w","o","r","l","d">>,
    \* goodbye mars
    <<"g","o","o","d","b","y","e"," ","m","a","r","s">>,
    \* is in
    <<"i","s"," ","i","n">>,
    \* hello
    <<"h","e","l","l","o">>,
    \* the
    <<"t","h","e">>,
    \* b a b
    <<"b"," ","a"," ","b">>
}
CallTexts == TextsUpTo(CallAlphabet, MaxTextLen) \cup ScenarioTexts

CallMappings == {
    DictV(<< <<KeyAnswer, StrV(<<"4","2">>)>> >>),
    DictV(<< <<KeyResponse, StrV(<<"4","2">>)>> >>),
    DictV(<< <<KeyAnswer, StrV(<<" ">>)>>, <<KeyText, StrV(<<"b">>)>> >>),
    DictV(<< <<KeyOutputs, DictV(<< <<KeyAnswer, IntV(42)>> >>)>> >>) }

Objects == {
    ObjV(<<"b">>, "none"),
    ObjV(<<>>, "Exception"),
    ObjV(<<>>, "BaseException") }

CallInputs == {StrV(t) : t \in CallTexts} \cup CallMappings \cup Objects \cup {IntV(42)}

\* values stored under the keys of the enumerated mappings
LeafValues == {
    StrV(<<" ","b"," ">>), StrV(<<" ">>), IntV(7), NoneV,
    ListV(<<StrV(<<"b">>)>>),
    DictV(<< <<KeyAnswer, StrV(<<" ","c">>)>> >>),
    DictV(<<>>) }

MappingKeys == {KeyResult, KeyAnswer, KeyResponse, KeyText, KeyOutputs}

\* the dicts of at most n entries with distinct keys, in every insertion order
RECURSIVE Mappings(_)
Mappings(n) ==
    IF n = 0 THEN {<<>>}
    ELSE LET fewer == Mappings(n - 1)
         IN  fewer \cup
             {Append(m, <<k, v>>) :
                 m \in {x \in fewer : Len(x) = n - 1},
                 k \in MappingKeys, v \in LeafValues}

DistinctKeys(m) == \A i, j \in 1..Len(m) : m[i][1] = m[j][1] => i = j

ExtractInputs ==
    {DictV(m) : m \in {x \in Mappings(MaxKeys) : DistinctKeys(x)}}
    \cup {StrV(<<" ","b","\t">>), StrV(<<>>), IntV(42), NoneV, ListV(<<IntV(1), StrV(<<"b">>)>>)}
    \cup Objects

----------------------------------------------------------------------------
(* Specifications.                                                         *)

Idle == [kind |-> "none"]

CallIdle ==
    /\ gold = Idle /\ pred = Idle /\ trace = FALSE
    /\ pc = "idle" /\ result = Zero /\ printed = FALSE
NoReturn == [line |-> 0, field |-> 0]
ExtractIdle == data = Idle /\ extracted = Ok(<<>>) /\ via = NoReturn
NormIdle == text = <<>> /\ ntext = <<>> /\ nprev = <<>> /\ napplied = 0

\* a metric object and the arguments of one call of it
Init ==
    /\ output_field \in OutputFields
    /\ gold \in CallInputs
    /\ pred \in CallInputs
    /\ trace \in BOOLEAN
    /\ pc = "ready"
    /\ result = Zero
    /\ printed = FALSE
    /\ ExtractIdle
    /\ NormIdle

Call ==
    /\ pc = "ready"
    /\ \E r \in {__call__(gold, pred, trace)} :
           /\ pc' = r.pc
           /\ result' = r.value
           /\ printed' = r.printed
    /\ UNCHANGED <<output_field, gold, pred, trace, extractVars, normVars>>

Next == Call

Spec == Init /\ [][Next]_vars

\* a metric object and one value handed to _extract_text
InitExtract ==
    /\ output_field \in OutputFields
    /\ data \in ExtractInputs
    /\ extracted = Ok(<<>>)
    /\ via = NoReturn
    /\ pc = "ready"
    /\ gold = Idle /\ pred = Idle /\ trace = FALSE
    /\ result = Zero /\ printed = FALSE
    /\ NormIdle

ExtractText ==
    /\ pc = "ready"
    /\ extracted' = _extract_text(data)
    /\ via' = ExtractReturn(data)
    /\ pc' = IF extracted'.exc = "none" THEN "returned" ELSE "raised"
    /\ UNCHANGED <<output_field, data, gold, pred, trace, result, printed, normVars>>

NextExtract == ExtractText

SpecExtract == InitExtract /\ [][NextExtract]_vars

\* a text handed to _normalize_text, and the result handed to it again
InitNorm ==
    /\ output_field = KeyAnswer
    /\ text \in NormTexts
    /\ ntext = text
    /\ nprev = text
    /\ napplied = 0
    /\ pc = "ready"
    /\ gold = Idle /\ pred = Idle /\ trace = FALSE
    /\ result = Zero /\ printed = FALSE
    /\ ExtractIdle

NormalizeText ==
    /\ napplied < MaxApply
    /\ nprev' = ntext
    /\ ntext' = _normalize_text(ntext)
    /\ napplied' = napplied + 1
    /\ UNCHANGED <<output_field, text, callVars, extractVars>>

NextNorm == NormalizeText

SpecNorm == InitNorm /\ [][NextNorm]_vars

----------------------------------------------------------------------------
(* Properties.                                                             *)

\* the scalar result, or the total field of the detailed result
Total == IF trace THEN result.total ELSE result

GoldText == _extract_text(gold)
PredText == _extract_text(pred)

\* both extractions complete without a fault
BothExtracted == GoldText.exc = "none" /\ PredText.exc = "none"

\* the call is past the empty-input test: both extracted texts are non-empty
NormalPath == BothExtracted /\ GoldText.s # <<>> /\ PredText.s # <<>>

\* the lowercased normalized texts
GoldLower == Lower(_normalize_text(GoldText.s))
PredLower == Lower(_normalize_text(PredText.s))

AllZero == [exact_match |-> Zero, similarity |-> Zero, total |-> Zero]

\* C1: whenever the call returns, on the normal path, the empty-input
\* short-circuit or the fault path, the scalar result or the total of the
\* detailed result is a number between 0.0 and 1.0.
C1_TotalInUnitInterval ==
    pc = "returned" => (Total.d > 0 /\ 0 <= Total.n /\ Total.n <= Total.d)

\* a detailed result of the normal path with a total strictly inside (0, 1)
C1_Witness ==
    /\ pc = "returned" /\ trace /\ NormalPath
    /\ Less(Zero, result.total) /\ Less(result.total, One)

\* C2 as stated: scoring any text against itself returns 1.0.
C2_SelfScoreIsOne_AllTexts ==
    (pc = "returned" /\ gold.kind = "str" /\ pred = gold) => Total = One

\* C2 amended: scoring a text that is not empty after trimming against
\* itself returns 1.0 (an empty or whitespace-only text scores 0.0).
C2_SelfScoreIsOne_NonEmpty ==
    (pc = "returned" /\ gold.kind = "str" /\ pred = gold /\ Strip(gold.s) # <<>>)
        => Total = One

\* a text made of an article only, scored against itself
C2_Witness ==
    /\ pc = "returned" /\ gold.kind = "str" /\ pred = gold
    /\ Strip(gold.s) # <<>> /\ _normalize_text(gold.s) = <<>>
    /\ Total = One

C4_NeverRaises ==
    pc # "ready" =>
        /\ pc = "returned"
        /\ ~BothExtracted =>
              /\ printed
              /\ result = (IF trace THEN [error |-> One, total |-> Zero] ELSE Zero)

\* C5: when both extracted texts are non-empty and one lowercased normalized
\* text is a substring of the other, total >= 0.7.
C5_SubstringBonus ==
    (pc = "returned" /\ NormalPath
        /\ (Contains(PredLower, GoldLower) \/ Contains(GoldLower, PredLower)))
        => Leq(Frac(7, 10), Total)

\* the prediction is a proper part of the gold text, the raw ratio is below
\* 0.7 and the bonus lifts the total to 0.7
C5_Witness ==
    /\ pc = "returned" /\ NormalPath
    /\ PredLower # <<>>
    /\ Contains(GoldLower, PredLower) /\ ~Contains(PredLower, GoldLower)
    /\ Less(ratio(GoldLower, PredLower), Frac(7, 10))
    /\ Total = Frac(7, 10)

\* C6: normalisation is idempotent: normalizing a normalized text changes
\* nothing.
C6_NormalizeIdempotent == napplied >= 2 => ntext = nprev

\* what C7 says of a normalized text
NoWhitespaceRun(t) == \A i \in 1..(Len(t) - 1) : ~(IsSpace(t[i]) /\ IsSpace(t[i + 1]))
NoPunctuation(t) == \A i \in 1..Len(t) : t[i] \notin {".", ",", "!", "?", ";", ":", "\"", "'"}
NoStandaloneArticle(t) ==
    \A i \in 1..Len(t) : \A alt \in {<<"t","h","e">>, <<"a">>, <<"a","n">>} :
        ~ (/\ i + Len(alt) - 1 <= Len(t)
           /\ Lower(SubSeq(t, i, i + Len(alt) - 1)) = alt
           /\ (i = 1 \/ ~IsWord(t[i - 1]))
           /\ (i + Len(alt) > Len(t) \/ ~IsWord(t[i + Len(alt)])))
NoOuterWhitespace(t) == t = <<>> \/ (~IsSpace(t[1]) /\ ~IsSpace(t[Len(t)]))

\* C7: the output of normalisation has no whitespace run longer than one
\* character, no punctuation character, no standalone article and no leading
\* or trailing whitespace.
C7_NormalForm ==
    napplied >= 1 =>
        /\ NoWhitespaceRun(ntext)
        /\ NoPunctuation(ntext)
        /\ NoStandaloneArticle(ntext)
        /\ NoOuterWhitespace(ntext)

EiffelGold == StrV(<<"T","h","e"," ","E","i","f","f","e","l"," ","T","o","w","e","r"," ","i","s"," ","i","n"," ","P","a","r","i","s">>)
EiffelPred == StrV(<<"E","i","f","f","e","l"," ","T","o","w","e","r"," ","i","s"," ","i","n"," ","P","a","r","i","s">>)

\* C8 as stated: for gold "The Eiffel Tower is in Paris" and prediction
\* "Eiffel Tower is in Paris" the detailed result has exact_match 0.0 and
\* total >= 0.7.
C8_LeadingArticle_NoExactMatch ==
    (pc = "returned" /\ trace /\ gold = EiffelGold /\ pred = EiffelPred)
        => (result.exact_match = Zero /\ Leq(Frac(7, 10), result.total))

\* C8 amended: for that pair the detailed result has exact_match 1.0 (the
\* article is removed, so the lowercased normalized texts are identical) and
\* total >= 0.7.
C8_LeadingArticle_ExactMatch ==
    (pc = "returned" /\ trace /\ gold = EiffelGold /\ pred = EiffelPred)
        => (result.exact_match = One /\ Leq(Frac(7, 10), result.total))

\* the detailed call on that pair has returned
C8_Witness ==
    /\ pc = "returned" /\ trace /\ gold = EiffelGold /\ pred = EiffelPred
    /\ GoldLower = PredLower /\ GoldText.s # PredText.s

\* the keys of the order [output field, answer, response, text] that are in
\* the mapping, by position in the order
PresentFields(d) ==
    {k \in 1..4 : HasKey(d, <<output_field, KeyAnswer, KeyResponse, KeyText>>[k])}

\* C9: for a mapping, the first key of the order that is present decides the
\* result, whatever the type of its value: the return is one of the two in
\* the loop, for that key; a text value is returned trimmed, a mapping or
\* sequence as its string representation.
C9_FirstPresentKeyDecides ==
    (pc # "ready" /\ data.kind = "dict" /\ PresentFields(data) # {}) =>
        LET first == <<output_field, KeyAnswer, KeyResponse, KeyText>>[SetMin(PresentFields(data))]
            value == Get(data, first)
        IN  /\ via.line \in {77, 79}
            /\ ExtractFields[via.field] = first
            /\ value.kind = "str" => extracted = Ok(Strip(value.s))
            /\ value.kind \in {"dict", "list"} => extracted = Repr(value)

\* the sets G and P of C10
KeyWords(t) == Words(Lower(t)) \ StopWords
KeyInfoSignal ==
    LET G == KeyWords(_normalize_text(GoldText.s))
        P == KeyWords(_normalize_text(PredText.s))
    IN  G # {} /\ 2 * Cardinality(G \cap P) >= Cardinality(G)

\* C10: the key-info signal is false when G is empty and otherwise true
\* exactly when |G \cap P| / |G| >= 0.5; when it is true the detailed result
\* has contains_key_info 1.0 and total >= 0.8; when it is false it has
\* contains_key_info 0.0 and the similarity the substring step left.
C10_KeyInfoBonus ==
    (pc = "returned" /\ trace /\ NormalPath) =>
        /\ KeyInfoSignal =>
              /\ result.contains_key_info = One
              /\ Leq(Frac(8, 10), result.total)
        /\ ~KeyInfoSignal =>
              /\ result.contains_key_info = Zero
              /\ result.similarity =
                    WithSubstringBonus(ratio(GoldLower, PredLower), GoldLower, PredLower)

\* at least half of the gold words are in the prediction, the similarity
\* before the step is below 0.8 and the step lifts the total to 0.8
C10_Witness ==
    /\ pc = "returned" /\ trace /\ NormalPath
    /\ KeyInfoSignal
    /\ Less(WithSubstringBonus(ratio(GoldLower, PredLower), GoldLower, PredLower), Frac(8, 10))
    /\ result.total = Frac(8, 10)

====
